---------------------------- MODULE Spec2Model ----------------------------
(***************************************************************************)
(* Model of src/app.py: the Streamlit page `main` that resolves or stages  *)
(* WAV inputs, converts their sample rate with sox, zips the results in    *)
(* the upload flow and removes the transient files it knows about.         *)
(*                                                                         *)
(* Python strings are TLA+ strings (Len, \o and SubSeq apply to them).     *)
(* Every user interaction re-executes `main` from the top; the position    *)
(* inside one execution is `pc`.                                           *)
(***************************************************************************)
EXTENDS Integers, Sequences, FiniteSets, TLC

VARIABLES
    disk,                \* the filesystem: path |-> content ("dir" for a directory)
    input_option,        \* selectbox of line 120: "upload" or "path"
    uploaded_files,      \* file_uploader widget: sequence of [name, blob]
    input_text,          \* text_input of line 132
    output_text,         \* text_input of lines 185/187
    button_shown,        \* the last execution rendered the Convert button
    clicked,             \* st.button of line 192 returns True in this execution
    pc,                  \* position of the running execution of main
    runs,                \* executions of main started so far
    next_tmp,            \* names handed out by tempfile.NamedTemporaryFile
    input_filename_list, \* display names
    real_filename_list,  \* staged base names
    input_filename_dict, \* display name |-> real name
    uploaded_flag,
    directory_path,
    output_filepath,     \* <<>> is None, <<s>> is the string s
    select_name,
    samplerate,
    count,               \* loop index of the running for loop
    now,                 \* time.time(), in half seconds since the execution began
    start,
    tool_calls,          \* sox build_file invocations of this execution, with their outcome
    data_count,          \* texts written to the data_count placeholder: <<done, total>>
    time_count,          \* texts written to the time_count placeholder: <<s, m * 100>>
    my_bar,              \* values given to the progress bar: <<numerator, denominator>>
    notices,             \* st.warning / st.error / st.success shown by this execution
    zipped,              \* ZipFile of line 227 was opened by this execution
    created              \* history: paths this execution created on disk

vars == <<disk, input_option, uploaded_files, input_text, output_text, button_shown,
          clicked, pc, runs, next_tmp, input_filename_list, real_filename_list,
          input_filename_dict, uploaded_flag, directory_path, output_filepath,
          select_name, samplerate, count, now, start, tool_calls, data_count,
          time_count, my_bar, notices, zipped, created>>

----------------------------------------------------------------------------
(* Bounds of the model *)

MaxUploads == 2      \* files selected in the uploader at once
MaxRuns == 2         \* executions of main in one session
MaxDelay == 1        \* half seconds one blocking call may take

----------------------------------------------------------------------------
(* Python string and list primitives *)

Char(s, i) == SubSeq(s, i, i)

\* s[-1] of a non-empty string
LastChar(s) == Char(s, Len(s))

\* s[:-1]
DropLast(s) == SubSeq(s, 1, Len(s) - 1)

\* s[-4:]
Last4(s) == IF Len(s) <= 4 THEN s ELSE SubSeq(s, Len(s) - 3, Len(s))

\* position of the last '/' of s, 0 when there is none
LastSlash(s) ==
    LET at == {i \in 1..Len(s) : Char(s, i) = "/"}
    IN  IF at = {} THEN 0 ELSE CHOOSE i \in at : \A j \in at : j <= i

\* s.rsplit('/', 1): a list of one or two strings
RSplit(s) ==
    LET i == LastSlash(s)
    IN  IF i = 0 THEN <<s>> ELSE <<SubSeq(s, 1, i - 1), SubSeq(s, i + 1, Len(s))>>

\* code points order the characters the model uses
Alphabet == "./0123456789_abcdefghijklmnopqrstuvwxyz"

Ord(c) == CHOOSE i \in 1..Len(Alphabet) : Char(Alphabet, i) = c

RECURSIVE StrLess(_, _)
StrLess(s, t) ==
    IF t = "" THEN FALSE
    ELSE IF s = "" THEN TRUE
    ELSE IF Char(s, 1) = Char(t, 1) THEN StrLess(SubSeq(s, 2, Len(s)), SubSeq(t, 2, Len(t)))
    ELSE Ord(Char(s, 1)) < Ord(Char(t, 1))

\* sorted(...) of a set of distinct strings
RECURSIVE Sorted(_)
Sorted(S) ==
    IF S = {} THEN <<>>
    ELSE LET m == CHOOSE x \in S : \A y \in S \ {x} : StrLess(x, y)
         IN  <<m>> \o Sorted(S \ {m})

Range(q) == {q[i] : i \in 1..Len(q)}

\* a dictionary that keeps the first value given for a key
DictZipFirstWins(keys, values) ==
    LET n == IF Len(keys) < Len(values) THEN Len(keys) ELSE Len(values)
    IN  [k \in {keys[i] : i \in 1..n} |->
            values[CHOOSE i \in 1..n : keys[i] = k /\ \A j \in 1..n : keys[j] = k => i <= j]]

\* dict(zip(keys, values)): a later pair replaces an earlier one with the same key
DictZip(keys, values) ==
    LET n == IF Len(keys) < Len(values) THEN Len(keys) ELSE Len(values)
    IN  [k \in {keys[i] : i \in 1..n} |->
            values[CHOOSE i \in 1..n : keys[i] = k /\ \A j \in 1..n : keys[j] = k => j <= i]]

\* decimal digits of a natural number
RECURSIVE NumStr(_)
NumStr(n) ==
    IF n < 10 THEN Char("0123456789", n + 1)
    ELSE NumStr(n \div 10) \o Char("0123456789", (n % 10) + 1)

\* round(num / den) as Python rounds a float: to nearest, a tie to the even integer
Round(num, den) ==
    LET q == num \div den
        r == num % den
    IN  IF 2 * r < den THEN q
        ELSE IF 2 * r > den THEN q + 1
        ELSE IF q % 2 = 0 THEN q ELSE q + 1

----------------------------------------------------------------------------
(* os.path and os on `disk` *)

RECURSIVE StripSlashes(_)
StripSlashes(p) ==
    IF p # "" /\ LastChar(p) = "/" THEN StripSlashes(DropLast(p)) ELSE p

\* the directory entry a path names: trailing separators do not count
Entry(p) == IF StripSlashes(p) = "" THEN "/" ELSE StripSlashes(p)

IsDirEntry(e) == e = "/" \/ (e \in DOMAIN disk /\ disk[e] = "dir")

\* os.path.isdir
os_path_isdir(p) == p # "" /\ IsDirEntry(Entry(p))

\* os.path.exists: a regular file followed by a separator does not exist
os_path_exists(p) ==
    /\ p # ""
    /\ \/ IsDirEntry(Entry(p))
       \/ Entry(p) \in DOMAIN disk /\ LastChar(p) # "/"

\* os.path.join(a, b) for a relative b
os_path_join(a, b) == IF a = "" \/ LastChar(a) = "/" THEN a \o b ELSE a \o "/" \o b

\* the names os.listdir(p) returns for a directory p
ListDir(p) ==
    LET prefix == IF Entry(p) = "/" THEN "/" ELSE Entry(p) \o "/"
    IN  {SubSeq(e, Len(prefix) + 1, Len(e)) :
            e \in {f \in DOMAIN disk :
                     /\ Len(f) > Len(prefix)
                     /\ SubSeq(f, 1, Len(prefix)) = prefix
                     /\ LastSlash(f) = Len(prefix)}}

----------------------------------------------------------------------------
(* Path resolution, lines 16-51 *)

WavNames(S) == {i \in S : Last4(i) = ".wav"}

\* make_audio_list: a failing listdir gives the empty list
make_audio_list(input_filepath) ==
    [raised |-> FALSE,
     directory_path |-> input_filepath \o "/",
     input_filename_list |->
        IF os_path_isdir(input_filepath)
        THEN Sorted(WavNames(ListDir(input_filepath)))
        ELSE <<>>]

\* validate_audio_path; `raised` is the IndexError of line 29
validate_audio_path(input_filepath) ==
    IF os_path_exists(input_filepath)
    THEN LET p == IF LastChar(input_filepath) = "/"
                  THEN DropLast(input_filepath) ELSE input_filepath
         IN  IF Last4(p) = ".wav"
             THEN IF Len(RSplit(p)) < 2
                  THEN [raised |-> TRUE, directory_path |-> RSplit(p)[1] \o "/",
                        input_filename_list |-> <<>>]
                  ELSE [raised |-> FALSE, directory_path |-> RSplit(p)[1] \o "/",
                        input_filename_list |-> <<RSplit(p)[2]>>]
             ELSE make_audio_list(p)
    ELSE [raised |-> FALSE, directory_path |-> "", input_filename_list |-> <<>>]

----------------------------------------------------------------------------
(* The world the session runs in *)

\* files the user can pick in the uploader: two of them share the name a.wav
UserFiles ==
    {[name |-> "a.wav", blob |-> "blob1"],
     [name |-> "b.wav", blob |-> "blob2"],
     [name |-> "a.wav", blob |-> "blob3"]}

\* selections of at most MaxUploads of these files, each picked once, in any order
Selections ==
    {q \in UNION {[1..n -> UserFiles] : n \in 0..MaxUploads} :
        \A i, j \in 1..Len(q) : i # j => q[i] # q[j]}

\* texts typed into the path input; line 132 gives its default value
DefaultInputText == "sample/ohayo01shibu.wav"
InputTexts == {DefaultInputText, "sample", "sample/", "x.wav", "sample/ohayo01shibu.wav/",
               "/d.wav/", "/nope", ""}

\* texts typed into the destination input; line 187 leaves it empty by default
DefaultOutputText == ""
OutputTexts == {DefaultOutputText, "/out", "/out/", "/nope", "x.wav"}

SampleRates == {"11k", "16k"}

\* sample_frequency of lines 106-109
sample_frequency == [r \in SampleRates |-> IF r = "11k" THEN 11025 ELSE 16000]

\* tempfile.gettempdir()
TempDir == "/tmp"

ZipfileDotZip == "convert_samplerate.zip"

\* the machine the page runs on: the scratch directory, the sample directory of the
\* default path with two WAV files and a text file, a WAV file in the working
\* directory, a destination directory and a directory whose name ends in .wav
InitialDisk ==
    [p \in {"/tmp", "/out", "sample", "/d.wav", "sample/ohayo01shibu.wav",
            "sample/b.wav", "sample/n.txt", "x.wav"} |->
        IF p \in {"/tmp", "/out", "sample", "/d.wav"} THEN "dir" ELSE "audio"]

IsFile(p) == p \in DOMAIN disk /\ disk[p] # "dir"

\* the directory a file path lies in exists
ParentIsDir(p) ==
    LET parts == RSplit(p)
    IN  IF Len(parts) < 2 THEN TRUE ELSE parts[1] = "" \/ os_path_isdir(parts[1])

\* disk d with path p holding content c
WriteFile(d, p, c) == [q \in DOMAIN d \cup {p} |-> IF q = p THEN c ELSE d[q]]

\* disk d without the paths in S
RemoveAll(d, S) == [q \in DOMAIN d \ S |-> d[q]]

----------------------------------------------------------------------------
(* make_directory, lines 79-95: <<>> is None *)

MakeDirectoryPath(output_root) ==
    (IF LastChar(output_root) # "/" THEN output_root \o "/" ELSE output_root)
        \o "convert_samplerate" \o "/"

\* the destination is built without asking whether the root is a directory
make_directory_result_unchecked(output_root) ==
    IF output_root = "" THEN <<"convert_samplerate/">> ELSE <<MakeDirectoryPath(output_root)>>

make_directory_result(output_root) ==
    IF os_path_isdir(output_root) THEN <<MakeDirectoryPath(output_root)>> ELSE <<>>

make_directory_disk(output_root) ==
    IF os_path_isdir(output_root) /\ ~os_path_exists(MakeDirectoryPath(output_root))
    THEN WriteFile(disk, Entry(MakeDirectoryPath(output_root)), "dir")
    ELSE disk

----------------------------------------------------------------------------
(* Initial state: the page after its first execution, nothing selected *)

Init ==
    /\ disk = InitialDisk
    /\ input_option = "upload"
    /\ uploaded_files = <<>>
    /\ input_text = DefaultInputText
    /\ output_text = DefaultOutputText
    /\ button_shown = FALSE
    /\ clicked = FALSE
    /\ pc = "idle"
    /\ runs = 0
    /\ next_tmp = 0
    /\ input_filename_list = <<>>
    /\ real_filename_list = <<>>
    /\ input_filename_dict = <<>>
    /\ uploaded_flag = FALSE
    /\ directory_path = ""
    /\ output_filepath = <<>>
    /\ select_name = ""
    /\ samplerate = "11k"
    /\ count = 0
    /\ now = 0
    /\ start = 0
    /\ tool_calls = <<>>
    /\ data_count = <<>>
    /\ time_count = <<>>
    /\ my_bar = <<>>
    /\ notices = {}
    /\ zipped = FALSE
    /\ created = {}

\* lines 125-127: a fresh execution of main
BeginRun ==
    /\ pc' = "resolve"
    /\ runs' = runs + 1
    /\ input_filename_list' = <<>>
    /\ real_filename_list' = <<>>
    /\ input_filename_dict' = <<>>
    /\ uploaded_flag' = FALSE
    /\ directory_path' = ""
    /\ output_filepath' = <<>>
    /\ select_name' = ""
    /\ samplerate' = "11k"
    /\ count' = 0
    /\ now' = 0
    /\ start' = 0
    /\ tool_calls' = <<>>
    /\ data_count' = <<>>
    /\ time_count' = <<>>
    /\ my_bar' = <<>>
    /\ notices' = {}
    /\ zipped' = FALSE
    /\ created' = {}
    /\ UNCHANGED <<disk, next_tmp>>

----------------------------------------------------------------------------
(* User actions: each one re-executes main *)

\* the user picks files in the uploader (lines 120, 137)
SelectUploads ==
    /\ pc = "idle" /\ runs < MaxRuns
    /\ \E q \in Selections :
        /\ input_option' = "upload"
        /\ uploaded_files' = q
    /\ input_text' = DefaultInputText
    /\ output_text' = DefaultOutputText
    /\ clicked' = FALSE
    /\ button_shown' = FALSE
    /\ BeginRun

\* the user chooses the path option and types the paths (lines 120, 132, 185-187)
EnterPaths ==
    /\ pc = "idle" /\ runs < MaxRuns
    /\ input_option' = "path"
    /\ uploaded_files' = <<>>
    /\ \E i \in InputTexts : input_text' = i
    /\ \E o \in OutputTexts : output_text' = o
    /\ clicked' = FALSE
    /\ button_shown' = FALSE
    /\ BeginRun

\* the user presses 'Convert & Download' (line 192), which the last execution rendered
ClickConvert ==
    /\ pc = "idle" /\ runs < MaxRuns
    /\ button_shown
    /\ clicked' = TRUE
    /\ button_shown' = FALSE
    /\ UNCHANGED <<input_option, uploaded_files, input_text, output_text>>
    /\ BeginRun

----------------------------------------------------------------------------
(* One execution of main, lines 117-248 *)

widgets == <<input_option, uploaded_files, input_text, output_text, clicked>>
progress == <<now, start, tool_calls, data_count, time_count, my_bar>>

\* the name tempfile.NamedTemporaryFile gives its next file
TempName(n) == "t" \o NumStr(n)

\* lines 151-158: the handler of a failed resolution or staging
StagingCleanupPaths ==
    IF uploaded_flag
    THEN {p \in {os_path_join(directory_path, real_filename_list[i]) :
                    i \in 1..Len(real_filename_list)} : os_path_exists(p)}
    ELSE {}

\* lines 131-135 (and 151-153 when line 29 raises): the path option
ResolvePath ==
    /\ pc = "resolve" /\ input_option = "path"
    /\ LET r == validate_audio_path(input_text)
       IN  IF r.raised
           THEN /\ notices' = notices \cup {"error: upload or path"}
                /\ input_filename_list' = <<>>
                /\ disk' = RemoveAll(disk, StagingCleanupPaths)
                /\ UNCHANGED <<directory_path, input_filename_dict>>
           ELSE /\ directory_path' = r.directory_path
                /\ input_filename_list' = r.input_filename_list
                /\ input_filename_dict' =
                       DictZip(r.input_filename_list, r.input_filename_list)
                /\ notices' = IF r.input_filename_list = <<>>
                              THEN notices \cup {"warning: no audio file"}
                              ELSE notices
                /\ UNCHANGED disk
    /\ pc' = "preview"
    /\ UNCHANGED <<widgets, button_shown, runs, next_tmp, real_filename_list,
                   uploaded_flag, output_filepath, select_name, samplerate, count,
                   progress, zipped, created>>

\* lines 137-141: the upload option
BeginStaging ==
    /\ pc = "resolve" /\ input_option = "upload"
    /\ uploaded_flag' = TRUE
    /\ directory_path' = IF LastChar(TempDir) # "/" THEN TempDir \o "/" ELSE TempDir
    /\ real_filename_list' = <<>>
    /\ count' = 0
    /\ pc' = "stage"
    /\ UNCHANGED <<disk, widgets, button_shown, runs, next_tmp, input_filename_list,
                   input_filename_dict, output_filepath, select_name, samplerate,
                   progress, notices, zipped, created>>

\* lines 143-149 for one uploaded file: NamedTemporaryFile creates the file, then
\* write_bytes either stores the blob or raises, which runs lines 151-158
StageUpload ==
    /\ pc = "stage" /\ count < Len(uploaded_files)
    /\ LET uploaded_file == uploaded_files[count + 1]
           input_filepath == TempDir \o "/" \o TempName(next_tmp)
       IN  /\ next_tmp' = next_tmp + 1
           /\ created' = created \cup {input_filepath}
           /\ \/ /\ disk' = WriteFile(disk, input_filepath, uploaded_file.blob)
                 /\ real_filename_list' =
                        Append(real_filename_list, RSplit(input_filepath)[2])
                 /\ input_filename_list' =
                        Append(input_filename_list, uploaded_file.name)
                 /\ count' = count + 1
                 /\ UNCHANGED <<pc, notices>>
              \/ /\ disk' = RemoveAll(WriteFile(disk, input_filepath, ""),
                                      StagingCleanupPaths)
                 /\ notices' = notices \cup {"error: upload or path"}
                 /\ input_filename_list' = <<>>
                 /\ pc' = "preview"
                 /\ UNCHANGED <<real_filename_list, count>>
    /\ UNCHANGED <<widgets, button_shown, runs, input_filename_dict, uploaded_flag,
                   directory_path, output_filepath, select_name, samplerate,
                   progress, zipped>>

\* line 150
FinishStaging ==
    /\ pc = "stage" /\ count = Len(uploaded_files)
    /\ input_filename_dict' = DictZip(input_filename_list, real_filename_list)
    /\ pc' = "preview"
    /\ UNCHANGED <<disk, widgets, button_shown, runs, next_tmp, input_filename_list,
                   real_filename_list, uploaded_flag, directory_path, output_filepath,
                   select_name, samplerate, count, progress, notices, zipped, created>>

\* line 160 with nothing to show: the execution ends without a Convert button
NothingToConvert ==
    /\ pc = "preview" /\ input_filename_list = <<>>
    /\ pc' = "done"
    /\ UNCHANGED <<disk, widgets, button_shown, runs, next_tmp, input_filename_list,
                   real_filename_list, input_filename_dict, uploaded_flag,
                   directory_path, output_filepath, select_name, samplerate, count,
                   progress, notices, zipped, created>>

\* lines 160-192: the preview of the selected input, the rate and the destination.
\* open() of line 169 is outside every try: on a directory it ends the execution.
Preview ==
    /\ pc = "preview" /\ input_filename_list # <<>>
    /\ \E n \in Range(input_filename_list) :
        /\ select_name' = n
        /\ IF IsFile(directory_path \o input_filename_dict[n])
           THEN /\ \E r \in SampleRates : samplerate' = r
                /\ output_filepath' =
                       IF uploaded_flag THEN <<directory_path>> ELSE <<output_text>>
                /\ button_shown' = TRUE
                /\ pc' = IF clicked THEN "begin" ELSE "done"
                /\ UNCHANGED notices
           ELSE /\ notices' = notices \cup {"uncaught exception"}
                /\ pc' = "done"
                /\ UNCHANGED <<samplerate, output_filepath, button_shown>>
    /\ UNCHANGED <<disk, widgets, runs, next_tmp, input_filename_list,
                   real_filename_list, input_filename_dict, uploaded_flag,
                   directory_path, count, progress, zipped, created>>

\* lines 193-208: the destination directory of the path option, the placeholders
\* of the progress display and the start of the clock
BeginConvert ==
    /\ pc = "begin"
    /\ IF uploaded_flag
       THEN UNCHANGED <<output_filepath, disk, created, notices>>
       ELSE /\ output_filepath' = make_directory_result(output_filepath[1])
            /\ disk' = make_directory_disk(output_filepath[1])
            /\ created' = created \cup (DOMAIN disk' \ DOMAIN disk)
            /\ notices' = IF make_directory_result(output_filepath[1]) = <<>>
                          THEN notices \cup {"warning: destination"}
                          ELSE notices
    /\ time_count' = Append(time_count, <<0, 0>>)
    /\ data_count' = Append(data_count, <<0, 0>>)
    /\ my_bar' = Append(my_bar, <<0, 1>>)
    /\ start' = now
    /\ count' = 0
    /\ pc' = "convert"
    /\ UNCHANGED <<widgets, button_shown, runs, next_tmp, input_filename_list,
                   real_filename_list, input_filename_dict, uploaded_flag,
                   directory_path, select_name, samplerate, now, tool_calls, zipped>>

\* the loop index is shown as it is, without the + 1 of lines 212-213
ReportProgressZeroBased(done, total, t1, t2) ==
    /\ time_count' = Append(time_count, <<Round(t1 - start, 2), Round((t2 - start) * 100, 120)>>)
    /\ data_count' = Append(data_count, <<done - 1, total>>)
    /\ my_bar' = Append(my_bar, <<done - 1, total>>)

\* lines 211-213 after item number `done` of `total`, the clock read at t1 and t2
ReportProgress(done, total, t1, t2) ==
    /\ time_count' = Append(time_count, <<Round(t1 - start, 2), Round((t2 - start) * 100, 120)>>)
    /\ data_count' = Append(data_count, <<done, total>>)
    /\ my_bar' = Append(my_bar, <<done, total>>)

\* a failed item is skipped and the loop goes on with the next one
ConversionFailedKeepGoing ==
    /\ notices' = notices \cup {"error: stopped"}
    /\ count' = count + 1
    /\ UNCHANGED <<pc, now, start, data_count, time_count, my_bar>>

\* lines 241-242: an exception inside the loop leaves it for the handler
ConversionFailed ==
    /\ notices' = notices \cup {"error: stopped"}
    /\ pc' = "finally"
    /\ UNCHANGED <<count, now, start, data_count, time_count, my_bar>>

\* lines 209-213 for one item. convert_samplerate (lines 97-114) raises TypeError at
\* line 110 when the destination is None, before sox is reached; otherwise sox runs
\* and either writes the output or fails, leaving nothing or a partial output.
ConvertItem ==
    /\ pc = "convert" /\ count < Len(input_filename_list)
    /\ LET audio_name == input_filename_list[count + 1]
           src == directory_path \o input_filename_dict[audio_name]
       IN  IF output_filepath = <<>>
           THEN /\ ConversionFailed
                /\ UNCHANGED <<disk, created, tool_calls>>
           ELSE LET dst == output_filepath[1] \o audio_name
                    call == [input |-> src, output |-> dst,
                             rate |-> sample_frequency[samplerate]]
                IN  /\ \/ /\ IsFile(src) /\ ParentIsDir(dst) /\ ~os_path_isdir(dst)
                          /\ tool_calls' = Append(tool_calls, call @@ [ok |-> TRUE])
                          /\ disk' = WriteFile(disk, dst, "converted")
                          /\ created' = created \cup {dst}
                          /\ \E d, e \in 0..MaxDelay :
                                /\ now' = now + d + e
                                /\ ReportProgress(count + 1, Len(input_filename_list),
                                                  now + d, now + d + e)
                          /\ count' = count + 1
                          /\ UNCHANGED <<pc, notices, start>>
                       \/ /\ tool_calls' = Append(tool_calls, call @@ [ok |-> FALSE])
                          /\ \/ UNCHANGED <<disk, created>>
                             \/ /\ ParentIsDir(dst) /\ ~os_path_isdir(dst)
                                /\ disk' = WriteFile(disk, dst, "partial")
                                /\ created' = created \cup {dst}
                          /\ ConversionFailed
    /\ UNCHANGED <<widgets, button_shown, runs, next_tmp, input_filename_list,
                   real_filename_list, input_filename_dict, uploaded_flag,
                   directory_path, output_filepath, select_name, samplerate, zipped>>

\* lines 214-222: the loop is over; the converted file of the selected name is shown
ShowConverted ==
    /\ pc = "convert" /\ count = Len(input_filename_list)
    /\ IF IsFile(output_filepath[1] \o select_name)
       THEN /\ notices' = notices \cup {"success: done"}
            /\ pc' = "package"
       ELSE /\ notices' = notices \cup {"success: done", "error: stopped"}
            /\ pc' = "finally"
    /\ UNCHANGED <<disk, widgets, button_shown, runs, next_tmp, input_filename_list,
                   real_filename_list, input_filename_dict, uploaded_flag,
                   directory_path, output_filepath, select_name, samplerate, count,
                   progress, zipped, created>>

\* lines 224-240: the archive of the upload option. ZipFile(..., "w") may fail to
\* open; once open it holds a file on disk, complete only if every write succeeds.
Package ==
    /\ pc = "package"
    /\ IF uploaded_flag
       THEN LET archive == directory_path \o ZipfileDotZip
            IN  \/ /\ notices' = notices \cup {"error: stopped"}
                   /\ UNCHANGED <<disk, created, zipped>>
                \/ /\ disk' = WriteFile(disk, archive, "partial zip")
                   /\ created' = created \cup {archive}
                   /\ zipped' = TRUE
                   /\ notices' = notices \cup {"error: stopped"}
                \/ /\ \A i \in 1..Len(input_filename_list) :
                          IsFile(directory_path \o input_filename_list[i])
                   /\ disk' = WriteFile(disk, archive, "zip")
                   /\ created' = created \cup {archive}
                   /\ zipped' = TRUE
                   /\ notices' = notices \cup {"download link"}
       ELSE /\ notices' = notices \cup {"success: download done"}
            /\ UNCHANGED <<disk, created, zipped>>
    /\ pc' = "finally"
    /\ UNCHANGED <<widgets, button_shown, runs, next_tmp, input_filename_list,
                   real_filename_list, input_filename_dict, uploaded_flag,
                   directory_path, output_filepath, select_name, samplerate, count,
                   progress>>

\* only the staged uploads are removed, the converted outputs are forgotten
FinalCleanupPathsStagedOnly ==
    IF uploaded_flag
    THEN {p \in {os_path_join(directory_path, real_filename_list[i]) :
                    i \in 1..Len(real_filename_list)} : os_path_exists(p)}
    ELSE {}

\* the removal is not restricted to the upload option
FinalCleanupPathsAnyOption ==
    LET names == real_filename_list \o input_filename_list
    IN  {p \in {os_path_join(directory_path, names[i]) : i \in 1..Len(names)} :
            os_path_exists(p)}

\* the paths lines 244-248 remove
FinalCleanupPaths ==
    IF uploaded_flag
    THEN LET names == real_filename_list \o input_filename_list
         IN  {p \in {os_path_join(directory_path, names[i]) : i \in 1..Len(names)} :
                 os_path_exists(p)}
    ELSE {}

\* lines 243-248
Finally ==
    /\ pc = "finally"
    /\ disk' = RemoveAll(disk, FinalCleanupPaths)
    /\ pc' = "done"
    /\ UNCHANGED <<widgets, button_shown, runs, next_tmp, input_filename_list,
                   real_filename_list, input_filename_dict, uploaded_flag,
                   directory_path, output_filepath, select_name, samplerate, count,
                   progress, notices, zipped, created>>

\* main returns: its locals and what it displayed give way to the next execution
Return ==
    /\ pc = "done"
    /\ pc' = "idle"
    /\ input_filename_list' = <<>>
    /\ real_filename_list' = <<>>
    /\ input_filename_dict' = <<>>
    /\ uploaded_flag' = FALSE
    /\ directory_path' = ""
    /\ output_filepath' = <<>>
    /\ select_name' = ""
    /\ samplerate' = "11k"
    /\ count' = 0
    /\ now' = 0
    /\ start' = 0
    /\ tool_calls' = <<>>
    /\ data_count' = <<>>
    /\ time_count' = <<>>
    /\ my_bar' = <<>>
    /\ notices' = {}
    /\ zipped' = FALSE
    /\ created' = {}
    /\ clicked' = FALSE
    /\ UNCHANGED <<disk, input_option, uploaded_files, input_text, output_text,
                   button_shown, runs, next_tmp>>

Next ==
    \/ SelectUploads
    \/ EnterPaths
    \/ ClickConvert
    \/ ResolvePath
    \/ BeginStaging
    \/ StageUpload
    \/ FinishStaging
    \/ NothingToConvert
    \/ Preview
    \/ BeginConvert
    \/ ConvertItem
    \/ ShowConverted
    \/ Package
    \/ Finally
    \/ Return

Spec == Init /\ [][Next]_vars

----------------------------------------------------------------------------
(* Vocabulary of the properties *)

ArchivePath == directory_path \o ZipfileDotZip

\* the running execution has reached the conversion (line 193)
ConversionStarted == data_count # <<>>

\* the execution has finished; what it displayed is still on the page
RunEnded == pc = "done"

\* every path NamedTemporaryFile has handed out in this session
StagedPaths == {TempDir \o "/" \o TempName(n) : n \in 0..(next_tmp - 1)}

\* position of the last upload that carries the display name n
LastUploadNamed(n) ==
    CHOOSE i \in 1..Len(uploaded_files) :
        /\ uploaded_files[i].name = n
        /\ \A j \in 1..Len(uploaded_files) : uploaded_files[j].name = n => j <= i

Occurrences(n) == Cardinality({i \in 1..Len(input_filename_list) : input_filename_list[i] = n})

\* staging has gone through all uploads and line 150 has built the mapping
SourceSetBuilt ==
    /\ uploaded_flag
    /\ input_filename_list # <<>>
    /\ pc \in {"preview", "begin", "convert", "package"}

ConvertedFiles == {p \in created : IsFile(p) /\ disk[p] = "converted"}

NonDecreasing(q, k) == \A i, j \in 1..Len(q) : i <= j => q[i][k] <= q[j][k]

----------------------------------------------------------------------------
(* C1 *)

\* C1: upload option, execution in which Convert was clicked and the conversion
\* started: when it ends, however it ends, none of the staged uploads and none of the
\* converted outputs it created (the output of a failing item included) is on disk.
C1_NoStagedOrConvertedFileSurvives ==
    (RunEnded /\ uploaded_flag /\ ConversionStarted) =>
        \A p \in created \ {ArchivePath} : p \notin DOMAIN disk

\* an upload run whose second item failed and left a partial output behind
C1_Witness ==
    /\ RunEnded /\ uploaded_flag /\ ConversionStarted
    /\ Len(tool_calls) = 2
    /\ ~tool_calls[2].ok
    /\ tool_calls[1].output # tool_calls[2].output
    /\ tool_calls[2].output \in created

----------------------------------------------------------------------------
(* C2 *)

\* C2: upload option: every execution that stages uploads releases them before it
\* ends, whether or not Convert was clicked, so that no staged upload file of a
\* finished execution is on disk.
C2_NoStagedFileOutlivesItsExecution ==
    (pc \in {"done", "idle"}) => \A p \in StagedPaths : p \notin DOMAIN disk

----------------------------------------------------------------------------
(* C3 *)

\* C3: upload option: once convert_samplerate.zip has been created, completely or
\* in part, it is gone from disk when the execution ends.
C3_ArchiveRemovedByEndOfRun ==
    (RunEnded /\ zipped) => ArchivePath \notin DOMAIN disk

----------------------------------------------------------------------------
(* C4 *)

\* what a path-option execution that started converting leaves behind
PathRunOutcome ==
    (RunEnded /\ ConversionStarted) =>
        /\ \A i \in 1..Len(input_filename_list) :
              IsFile(directory_path \o input_filename_dict[input_filename_list[i]])
        /\ \A i \in 1..count :
              /\ output_filepath # <<>>
              /\ IsFile(output_filepath[1] \o input_filename_list[i])
              /\ disk[output_filepath[1] \o input_filename_list[i]] = "converted"
        /\ count < Len(input_filename_list) => "error: stopped" \in notices

\* C4: path option: no step of an execution removes a path from disk, and when the
\* execution ends the input files and the outputs of the items converted before a
\* failure exist, a failure being reported by the 'stopped' notice.
C4_PathRunDeletesNothing ==
    [][(input_option = "path" /\ pc # "idle") =>
          (DOMAIN disk \subseteq DOMAIN disk' /\ PathRunOutcome')]_vars

\* a path run that converted its first item and failed at the second
C4_Witness ==
    /\ RunEnded /\ input_option = "path" /\ ConversionStarted
    /\ count = 1
    /\ Len(input_filename_list) = 2
    /\ "error: stopped" \in notices
    /\ IsFile(output_filepath[1] \o input_filename_list[1])

----------------------------------------------------------------------------
(* C5 *)

\* C5: sox is invoked for the items in the order of input_filename_list, never
\* again after an invocation that failed; after a failure at item k the 'stopped'
\* notice is shown, at most k-1 converted files were produced and no archive is made.
C5_AbortOnFailure ==
    /\ Len(tool_calls) <= Len(input_filename_list)
    /\ \A i \in 1..Len(tool_calls) :
          /\ tool_calls[i].input =
                 directory_path \o input_filename_dict[input_filename_list[i]]
          /\ tool_calls[i].output = output_filepath[1] \o input_filename_list[i]
          /\ i < Len(tool_calls) => tool_calls[i].ok
    /\ (tool_calls # <<>> /\ ~tool_calls[Len(tool_calls)].ok) =>
          /\ pc \in {"finally", "done"}
          /\ "error: stopped" \in notices
          /\ Cardinality(ConvertedFiles) <= Len(tool_calls) - 1
          /\ ~zipped
          /\ notices \cap {"success: done", "download link", "success: download done"} = {}

\* the first of two items failed: the second one was left alone
C5_Witness ==
    /\ pc = "finally"
    /\ Len(input_filename_list) = 2
    /\ Len(tool_calls) = 1
    /\ ~tool_calls[1].ok

----------------------------------------------------------------------------
(* C6 *)

\* C6: staging: when the write of an upload fails, no conversion starts and every
\* temporary file the execution allocated, the one being written included, is
\* removed.
C6_FailedStagingLeavesNothing ==
    (pc \in {"preview", "done"} /\ uploaded_flag /\ "error: upload or path" \in notices) =>
        /\ tool_calls = <<>>
        /\ \A p \in created : p \notin DOMAIN disk

----------------------------------------------------------------------------
(* C7 *)

\* C7 as stated: for any uploads, also with a shared display name, every key of the
\* mapping occurs exactly once in the display names and the mapped staged file of
\* the i-th display name holds the i-th uploaded blob.
C7_SourceSetInvariantAsStated ==
    SourceSetBuilt =>
        /\ \A k \in DOMAIN input_filename_dict : Occurrences(k) = 1
        /\ \A i \in 1..Len(input_filename_list) :
              LET f == directory_path \o input_filename_dict[input_filename_list[i]]
              IN  IsFile(f) /\ disk[f] = uploaded_files[i].blob

\* C7 amended: the keys of the mapping are the display names, each occurring once
\* when the uploaded names are distinct; the mapped file of a display name n is a
\* file staged by this execution and holds the blob of the last upload named n.
C7_SourceSetInvariant ==
    SourceSetBuilt =>
        /\ Len(input_filename_list) = Len(uploaded_files)
        /\ DOMAIN input_filename_dict = Range(input_filename_list)
        /\ (\A i, j \in 1..Len(uploaded_files) :
               i # j => uploaded_files[i].name # uploaded_files[j].name)
              => \A k \in DOMAIN input_filename_dict : Occurrences(k) = 1
        /\ \A i \in 1..Len(input_filename_list) :
              LET n == input_filename_list[i]
                  f == directory_path \o input_filename_dict[n]
              IN  /\ n = uploaded_files[i].name
                  /\ f \in created
                  /\ IsFile(f)
                  /\ disk[f] = uploaded_files[LastUploadNamed(n)].blob

\* two uploads that share their display name and differ in content have been staged
C7_Witness ==
    /\ SourceSetBuilt
    /\ Len(input_filename_list) = 2
    /\ input_filename_list[1] = input_filename_list[2]
    /\ uploaded_files[1].blob # uploaded_files[2].blob

----------------------------------------------------------------------------
(* C8 *)

----------------------------------------------------------------------------
(* C9 *)

\* input_text with one trailing separator removed
WithoutTrailingSeparator(p) == IF p # "" /\ LastChar(p) = "/" THEN DropLast(p) ELSE p

\* C9: after the resolution of the typed path: an existing path ending in '.wav'
\* (one trailing separator aside), with or without a '/', gives without an error a
\* directory ending in '/' and the one-element list of its file name; a path that
\* does not exist gives ('', []).
C9_SingleFileShortcut ==
    (pc = "preview" /\ input_option = "path") =>
        LET p == WithoutTrailingSeparator(input_text)
        IN  /\ (os_path_exists(input_text) /\ Last4(p) = ".wav") =>
                  /\ "error: upload or path" \notin notices
                  /\ directory_path # "" /\ LastChar(directory_path) = "/"
                  /\ input_filename_list = <<SubSeq(p, LastSlash(p) + 1, Len(p))>>
            /\ ~os_path_exists(input_text) =>
                  /\ "error: upload or path" \notin notices
                  /\ directory_path = ""
                  /\ input_filename_list = <<>>

----------------------------------------------------------------------------
(* C10 *)

\* C10: path option, destination root that is no existing directory (the empty
\* text included): make_directory returns None and creates nothing, sox is never
\* invoked, the disk is left as it was, and the execution ends with the 'stopped'
\* notice.
C10_UnusableOutputRoot ==
    [][(/\ input_option = "path" /\ clicked
        /\ pc \in {"begin", "convert", "finally"}
        /\ ~os_path_isdir(output_text)) =>
          /\ disk' = disk
          /\ created' = {}
          /\ tool_calls' = <<>>
          /\ output_filepath' = <<>>
          /\ "warning: destination" \in notices'
          /\ pc' = "done" => "error: stopped" \in notices']_vars

\* a path run with two items and the empty destination has ended
C10_Witness ==
    /\ RunEnded /\ input_option = "path" /\ ConversionStarted
    /\ output_text = ""
    /\ Len(input_filename_list) = 2
    /\ "error: stopped" \in notices

=============================================================================
